---- MODULE Spec2Model ----
(***************************************************************************)
(* Attendance session state machine of the route handlers: clock-in,       *)
(* clock-out, break start/end, permit, resume and the "today" query with   *)
(* its auto-close sweep, over the attendance table.                        *)
(*                                                                         *)
(* Instants are minutes of Jakarta wall-clock time counted from 00:00 of   *)
(* calendar day 0 (Asia/Jakarta has a fixed offset, so wall-clock minutes  *)
(* and real minutes advance together).  A business date is a calendar-day  *)
(* number.  Row ids are the positions of the rows in the table.            *)
(***************************************************************************)
EXTENDS Integers, Sequences, FiniteSets, TLC

VARIABLES attendance,   \* the attendance table: a sequence of rows, id = index
          now,          \* the wall clock (Jakarta minutes)
          reqs,         \* requests in flight (interleaved specification)
          response      \* the response to the request that completed last

vars == <<attendance, now, reqs, response>>

----------------------------------------------------------------------------
\* Bounds of the model.
MaxRows == 2            \* rows the table may hold
MaxDaySessions == 6     \* sessions one user's day is followed to
MaxClockDay == 4        \* calendar days the business-date clock is followed over
MaxRecords == 2         \* records handed to calculateDailyTotal

\* Program constants.
CutoverHour == 4            \* getJakartaDate: hours before 04:00 belong to the previous day
MaxSessionsPerDay == 5      \* clockIn: nextSessionNumber > 5 is rejected
LateShift1 == 420           \* clockIn/resume: later than 07:00 is late
LateShift2 == 720           \* clockIn: later than 12:00 is late on Shift 2
DefaultSessionNumber == 1   \* schema: session_number default

Users == {1, 2}
Slots == {1, 2}
\* The instants the clock takes: 23:00 of calendar day 1, 03:00 of calendar day 2
\* (before the 04:00 cutover: the same business date) and 05:00 of calendar day 2
\* (past the cutover: the next business date).
Evening == 1 * (24 * 60) + 23 * 60
Night == 2 * (24 * 60) + 3 * 60
Morning == 2 * (24 * 60) + 5 * 60
Instants == {Evening, Morning}
\* 05:00 of calendar day 3: two business dates after the first.
ThirdMorning == 3 * (24 * 60) + 5 * 60
GapInstants == {Evening, Morning, ThirdMorning}
NightInstants == {Evening, Night}
CutoverInstants == {Evening, Night, Morning}

\* The instants around the lateness thresholds, on calendar day 2: 07:00, 07:01,
\* 12:00 and 12:01.
SevenSharp == 2 * (24 * 60) + 7 * 60
SevenPast == 2 * (24 * 60) + 7 * 60 + 1
NoonSharp == 2 * (24 * 60) + 12 * 60
NoonPast == 2 * (24 * 60) + 12 * 60 + 1
LateInstants == {SevenSharp, SevenPast, NoonSharp, NoonPast}

\* Instants around midnight and around the cutover, on each calendar day.
ClockMinutes == {0, 1, 3 * 60, 3 * 60 + 59, 4 * 60, 4 * 60 + 1, 5 * 60, 23 * 60 + 59}
ClockInstants == {c * (24 * 60) + m : c \in 1..MaxClockDay, m \in ClockMinutes}

Null == -1              \* SQL NULL of a timestamp column
NullText == "NULL"      \* SQL NULL of a text column
NoRow == 0              \* JavaScript undefined where a row is expected
NoInput == ""           \* a request field that is absent or empty

ShiftInputs == {NoInput, "Shift 1"}
AllShiftInputs == {NoInput, "Shift 1", "Shift 2", "Long Shift"}
PermitTypes == {"sick"}
PermitNotes == {"izin"}
\* The server's clock against Jakarta's, in minutes: a server in Asia/Jayapura
\* (two hours ahead), in Asia/Jakarta, in UTC (seven hours behind).
ServerSkews == {-120, 0, 420}

----------------------------------------------------------------------------
\* The clock.
MinuteOfDay(t) == t % (24 * 60)
CalendarDay(t) == t \div (24 * 60)
Hours(t) == MinuteOfDay(t) \div 60

\* Mutant: the business date changed at midnight.
getJakartaDateMidnight(t) == CalendarDay(t)

\* Mutant: 04:00 itself still counted to the previous day.
getJakartaDateInclusive(t) ==
    IF Hours(t) <= CutoverHour THEN CalendarDay(t) - 1 ELSE CalendarDay(t)

\* getJakartaDate: the Jakarta calendar day, minus one before 04:00.
getJakartaDate(t) ==
    IF Hours(t) < CutoverHour THEN CalendarDay(t) - 1 ELSE CalendarDay(t)

\* hour * 60 + minute of the Jakarta wall clock.
timeInMinutes(t) == Hours(t) * 60 + (MinuteOfDay(t) % 60)

----------------------------------------------------------------------------
\* The attendance table (shared/schema.ts) and the storage layer.
SchemaDefaults ==
    [checkIn |-> Null, checkOut |-> Null, breakStart |-> Null, breakEnd |-> Null,
     shift |-> NullText, sessionNumber |-> DefaultSessionNumber, status |-> "absent",
     notes |-> NullText, permitExitAt |-> Null, permitResumeAt |-> Null]

\* insert: the given columns, the schema's defaults for the others.
createAttendance(att, vals) == Append(att, vals @@ SchemaDefaults)

\* update ... where id = id: the given columns only.
updateAttendance(att, id, vals) == [att EXCEPT ![id] = vals @@ @]

\* The ids of the rows of one user and date.
DayRows(att, u, d) == {i \in DOMAIN att : att[i].userId = u /\ att[i].date = d}

\* Order of the rows in a day's list: by sessionNumber, then by id.
Precedes(att, i, j) ==
    \/ att[i].sessionNumber < att[j].sessionNumber
    \/ att[i].sessionNumber = att[j].sessionNumber /\ i <= j

\* sessions.find(s => !s.checkOut) over the ordered list: the first open row.
FindOpen(att, rows) ==
    LET open == {i \in rows : att[i].checkOut = Null}
    IN IF open = {} THEN NoRow
       ELSE CHOOSE i \in open : \A j \in open : Precedes(att, i, j)

\* getAttendanceSessionsByUserAndDate, as far as the handlers use its result:
\* the length of the list and its first open row.
getAttendanceSessionsByUserAndDate(att, u, d) ==
    [date |-> d, count |-> Cardinality(DayRows(att, u, d)),
     found |-> FindOpen(att, DayRows(att, u, d))]

\* getAttendanceByUserAndDate: one row of the user and date, or undefined when
\* there is none.  Which row it is when the day has several is not fixed by
\* the query, so every row of the day is a possible result.
getAttendanceByUserAndDate(att, u, d) ==
    IF DayRows(att, u, d) = {} THEN {NoRow} ELSE DayRows(att, u, d)

----------------------------------------------------------------------------
\* clockIn.
\* Mutants of the checks: the open-session check left out; the limit off by one.
ClockInResultNoActiveCheck(snap) ==
    IF snap.count + 1 > MaxSessionsPerDay THEN "SessionLimitExceeded" ELSE "ok"

ClockInResultLimitOffByOne(snap) ==
    IF snap.found # NoRow THEN "SessionConflict"
    ELSE IF snap.count > MaxSessionsPerDay THEN "SessionLimitExceeded"
    ELSE "ok"

\* The checks on the day's list: an open session, then the daily limit.
ClockInResult(snap) ==
    IF snap.found # NoRow THEN "SessionConflict"
    ELSE IF snap.count + 1 > MaxSessionsPerDay THEN "SessionLimitExceeded"
    ELSE "ok"

\* Mutant: the default left out.
ShiftAsGiven(shiftIn) == shiftIn

\* req.body.shift || 'Management'
ShiftOrDefault(shiftIn) == IF shiftIn = NoInput THEN "Management" ELSE shiftIn

\* Mutant: the thresholds themselves counted as late.
ClockInStatusInclusive(t, shift) ==
    IF timeInMinutes(t) >= LateShift1 /\ shift = "Shift 1" THEN "late"
    ELSE IF timeInMinutes(t) >= LateShift2 /\ shift = "Shift 2" THEN "late"
    ELSE "present"

\* The lateness rule of clockIn.
ClockInStatus(t, shift) ==
    IF timeInMinutes(t) > LateShift1 /\ shift = "Shift 1" THEN "late"
    ELSE IF timeInMinutes(t) > LateShift2 /\ shift = "Shift 2" THEN "late"
    ELSE "present"

ClockInValues(u, snap, shiftIn, t) ==
    [userId |-> u, date |-> snap.date, checkIn |-> t,
     status |-> ClockInStatus(t, ShiftOrDefault(shiftIn)),
     shift |-> ShiftOrDefault(shiftIn), sessionNumber |-> snap.count + 1]

\* Mutant: the checks repeated on the table as it is when the row is written.
ClockInWriteRechecked(att, u, snap, shiftIn, t) ==
    IF ClockInResult(getAttendanceSessionsByUserAndDate(att, u, snap.date)) = "ok"
    THEN createAttendance(att, ClockInValues(u, snap, shiftIn, t))
    ELSE att

ClockInWrite(att, u, snap, shiftIn, t) ==
    IF ClockInResult(snap) = "ok"
    THEN createAttendance(att, ClockInValues(u, snap, shiftIn, t))
    ELSE att

\* clockOut.
ClockOutResult(snap) == IF snap.found = NoRow THEN "NoActiveSession" ELSE "ok"

\* Mutant: every open session of the day closed, not the one found.
ClockOutWriteAllOpen(att, snap, t) ==
    IF ClockOutResult(snap) = "ok"
    THEN [i \in DOMAIN att |->
              IF /\ att[i].userId = att[snap.found].userId
                 /\ att[i].date = att[snap.found].date
                 /\ att[i].checkOut = Null
              THEN [att[i] EXCEPT !.checkOut = t] ELSE att[i]]
    ELSE att

\* Mutant: the status computed anew at clock-out.
ClockOutWriteStatus(att, snap, t) ==
    IF ClockOutResult(snap) = "ok"
    THEN updateAttendance(att, snap.found,
             [checkOut |-> t,
              status |-> IF timeInMinutes(t) > LateShift1 THEN "late" ELSE "present"])
    ELSE att

\* Mutant: the wrong column written.
ClockOutWriteBreakEnd(att, snap, t) ==
    IF ClockOutResult(snap) = "ok"
    THEN updateAttendance(att, snap.found, [breakEnd |-> t])
    ELSE att

ClockOutWrite(att, snap, t) ==
    IF ClockOutResult(snap) = "ok"
    THEN updateAttendance(att, snap.found, [checkOut |-> t])
    ELSE att

\* breakStart.
BreakStartResult(snap) == IF snap.found = NoRow THEN "NoActiveSession" ELSE "ok"

BreakStartWrite(att, snap, t) ==
    IF BreakStartResult(snap) = "ok"
    THEN updateAttendance(att, snap.found, [breakStart |-> t])
    ELSE att

\* breakEnd.
BreakEndResult(snap) == IF snap.found = NoRow THEN "NoActiveSession" ELSE "ok"

\* Mutant: breakEnd copied from breakStart without renaming the column.
BreakEndWriteBreakStart(att, snap, t) ==
    IF BreakEndResult(snap) = "ok"
    THEN updateAttendance(att, snap.found, [breakStart |-> t])
    ELSE att

BreakEndWrite(att, snap, t) ==
    IF BreakEndResult(snap) = "ok"
    THEN updateAttendance(att, snap.found, [breakEnd |-> t])
    ELSE att

\* Mutant: permitResumeAt stamped together with permitExitAt.
PermitWriteResumeAt(att, u, snap, type, notes, t) ==
    IF snap.found # NoRow
    THEN updateAttendance(att, snap.found,
             [status |-> type, notes |-> notes, checkOut |-> t, permitExitAt |-> t,
              permitResumeAt |-> t])
    ELSE createAttendance(att,
             [userId |-> u, date |-> snap.date, status |-> type, notes |-> notes,
              checkIn |-> t])

\* Mutant: a row that is already closed is left alone.
PermitWriteOpenOnly(att, u, snap, type, notes, t) ==
    IF snap.found # NoRow
    THEN IF att[snap.found].checkOut # Null THEN att
         ELSE updateAttendance(att, snap.found,
                  [status |-> type, notes |-> notes, checkOut |-> t, permitExitAt |-> t])
    ELSE createAttendance(att,
             [userId |-> u, date |-> snap.date, status |-> type, notes |-> notes,
              checkIn |-> t])

\* permit: snap.found is the row getAttendanceByUserAndDate returned.
PermitWrite(att, u, snap, type, notes, t) ==
    IF snap.found # NoRow
    THEN updateAttendance(att, snap.found,
             [status |-> type, notes |-> notes, checkOut |-> t, permitExitAt |-> t])
    ELSE createAttendance(att,
             [userId |-> u, date |-> snap.date, status |-> type, notes |-> notes,
              checkIn |-> t])

\* resume.
\* Mutant: the test for a session still open left out.
ResumeResultNoActiveCheck(snap) ==
    IF snap.count = 0 THEN "NoAttendanceToday" ELSE "ok"

\* Mutant: the test for an empty day left out.
ResumeResultNoCountCheck(snap) ==
    IF snap.found # NoRow THEN "SessionConflict" ELSE "ok"

ResumeResult(snap) ==
    IF snap.count = 0 THEN "NoAttendanceToday"
    ELSE IF snap.found # NoRow THEN "SessionConflict"
    ELSE "ok"

\* Mutant: the noon threshold of Shift 2 in place of 07:00.
ResumeStatusNoon(t) == IF timeInMinutes(t) > LateShift2 THEN "late" ELSE "present"

ResumeStatus(t) == IF timeInMinutes(t) > LateShift1 THEN "late" ELSE "present"

\* Mutant: permitResumeAt stamped on the session that resume creates.
ResumeValuesWithResumeAt(u, snap, t) ==
    [userId |-> u, date |-> snap.date, checkIn |-> t, status |-> ResumeStatus(t),
     shift |-> "Management", sessionNumber |-> snap.count + 1,
     notes |-> "Sesi ke-" \o ToString(snap.count + 1), permitResumeAt |-> t]

\* Mutant: the session number not incremented.
ResumeValuesStaleNumber(u, snap, t) ==
    [userId |-> u, date |-> snap.date, checkIn |-> t, status |-> ResumeStatus(t),
     shift |-> "Management", sessionNumber |-> snap.count,
     notes |-> "Sesi ke-" \o ToString(snap.count + 1)]

ResumeValues(u, snap, t) ==
    [userId |-> u, date |-> snap.date, checkIn |-> t, status |-> ResumeStatus(t),
     shift |-> "Management", sessionNumber |-> snap.count + 1,
     notes |-> "Sesi ke-" \o ToString(snap.count + 1)]

\* Mutant: the row created whatever the checks said.
ResumeWriteUnchecked(att, u, snap, t) == createAttendance(att, ResumeValues(u, snap, t))

ResumeWrite(att, u, snap, t) ==
    IF ResumeResult(snap) = "ok"
    THEN createAttendance(att, ResumeValues(u, snap, t))
    ELSE att

\* today: the auto-close sweep.
\* yesterday.setDate(getDate() - 1), formatted as a Jakarta calendar date.
yesterdayStr(t) == CalendarDay(t - 24 * 60)

\* new Date(jakartaTime.setHours(4, 0, 0, 0)): 04:00 on the server's own clock
\* of the day that is the Jakarta calendar day of t.
AutoCloseInstant(t, sk) == CalendarDay(t) * (24 * 60) + CutoverHour * 60 + sk

\* openSession.notes ? `${notes} (Auto-closed at 04:00)` : "Auto-closed at 04:00"
AutoCloseNotes(notes) ==
    IF notes # NullText /\ notes # ""
    THEN notes \o " (Auto-closed at 04:00)"
    ELSE "Auto-closed at 04:00"

\* Mutant: yesterday's open session swept whatever the hour and today's list.
SweepTargetUnguarded(att, u, t) ==
    getAttendanceSessionsByUserAndDate(att, u, yesterdayStr(t)).found

\* Mutant: yesterday swept although today already has sessions.
SweepTargetAlways(att, u, t) ==
    LET openSession == getAttendanceSessionsByUserAndDate(att, u, yesterdayStr(t)).found
    IN IF openSession # NoRow /\ Hours(t) >= CutoverHour THEN openSession ELSE NoRow

\* Mutant: the first row of yesterday taken, open or closed.
SweepTargetAnyRow(att, u, t) ==
    IF getAttendanceSessionsByUserAndDate(att, u, getJakartaDate(t)).count = 0
    THEN LET rows == DayRows(att, u, yesterdayStr(t))
         IN IF rows # {} /\ Hours(t) >= CutoverHour
            THEN CHOOSE i \in rows : \A j \in rows : Precedes(att, i, j)
            ELSE NoRow
    ELSE NoRow

\* The row the sweep closes, or NoRow.
SweepTarget(att, u, t) ==
    IF getAttendanceSessionsByUserAndDate(att, u, getJakartaDate(t)).count = 0
    THEN LET openSession ==
                 getAttendanceSessionsByUserAndDate(att, u, yesterdayStr(t)).found
         IN IF openSession # NoRow /\ Hours(t) >= CutoverHour
            THEN openSession ELSE NoRow
    ELSE NoRow

\* Mutant: the stale session annotated but left open.
TodayWriteNotesOnly(att, u, t, sk) ==
    LET target == SweepTarget(att, u, t)
    IN IF target # NoRow
       THEN updateAttendance(att, target,
                [notes |-> AutoCloseNotes(att[target].notes)])
       ELSE att

\* Mutant: the stale session deleted instead of closed.
TodayWriteDelete(att, u, t, sk) ==
    LET target == SweepTarget(att, u, t)
    IN IF target # NoRow
       THEN [i \in 1..(Len(att) - 1) |-> IF i < target THEN att[i] ELSE att[i + 1]]
       ELSE att

TodayWrite(att, u, t, sk) ==
    LET target == SweepTarget(att, u, t)
    IN IF target # NoRow
       THEN updateAttendance(att, target,
                [checkOut |-> AutoCloseInstant(t, sk),
                 notes |-> AutoCloseNotes(att[target].notes)])
       ELSE att

----------------------------------------------------------------------------
\* The duration aggregator of the client (lib/attendance.ts).  Its timestamps
\* are counted in seconds from 00:00 of the day, since differenceInMinutes
\* cuts a difference down to whole minutes.
Trunc(a, b) == IF a >= 0 THEN a \div b ELSE -((-a) \div b)
Max(a, b) == IF a >= b THEN a ELSE b

\* date-fns differenceInMinutes: the whole minutes of dateLeft - dateRight,
\* rounded towards zero.
differenceInMinutes(dateLeft, dateRight) == Trunc(dateLeft - dateRight, 60)

calculateDuration(start, end) ==
    IF start = Null \/ end = Null THEN 0 ELSE differenceInMinutes(end, start)

\* Mutant: the permit interval subtracted without the floor at 0.
SessionWorkNoFloor(record) ==
    IF record.permitExitAt # Null /\ record.permitResumeAt # Null
    THEN calculateDuration(record.checkIn, record.checkOut)
             - calculateDuration(record.permitExitAt, record.permitResumeAt)
    ELSE calculateDuration(record.checkIn, record.checkOut)

\* sessionWork of one record, after the permit adjustment.
SessionWork(record) ==
    IF record.permitExitAt # Null /\ record.permitResumeAt # Null
    THEN Max(0, calculateDuration(record.checkIn, record.checkOut)
                    - calculateDuration(record.permitExitAt, record.permitResumeAt))
    ELSE calculateDuration(record.checkIn, record.checkOut)

\* records.forEach from record i on, with the totals so far.
RECURSIVE Accumulate(_, _, _, _)
Accumulate(records, i, work, break) ==
    IF i > Len(records)
    THEN [totalWorkMins |-> work, totalBreakMins |-> break,
          netWorkMins |-> Max(0, work - break)]
    ELSE Accumulate(records, i + 1, work + SessionWork(records[i]),
                    break + calculateDuration(records[i].breakStart, records[i].breakEnd))

\* Mutant: the totals taken from the last record alone.
calculateDailyTotalLastOnly(records) == Accumulate(records, Max(1, Len(records)), 0, 0)

calculateDailyTotal(records) == Accumulate(records, 1, 0, 0)

\* The records the aggregator is tried on.
Record(ci, co, bs, be, pe, pr) ==
    [checkIn |-> ci, checkOut |-> co, breakStart |-> bs, breakEnd |-> be,
     permitExitAt |-> pe, permitResumeAt |-> pr]

Clock(h, m, sec) == (h * 60 + m) * 60 + sec

SampleRecords ==
    \* work alone: absent ends, a half minute, a checkOut before the checkIn
    {Record(ci, co, Null, Null, Null, Null) :
         ci \in {Null, Clock(9, 0, 0), Clock(9, 0, 30)},
         co \in {Null, Clock(17, 0, 0), Clock(8, 0, 0)}}
    \* breaks: complete, unfinished, ended before it started
    \cup {Record(Clock(9, 0, 0), Clock(17, 0, 0), Clock(12, 0, 0), be, Null, Null) :
              be \in {Null, Clock(13, 0, 0), Clock(11, 0, 0)}}
    \* permits: an hour, longer than the work, only one end set
    \cup {Record(Clock(9, 0, 0), Clock(17, 0, 0), Clock(12, 0, 0), Clock(13, 0, 0), pe, pr) :
              pe \in {Null, Clock(14, 0, 0)},
              pr \in {Null, Clock(15, 0, 0), Clock(23, 30, 0)}}

----------------------------------------------------------------------------
\* The response to a request: the handler that answered and what it answered.
Response(op, res) == [op |-> op, res |-> res]

\* A request slot: where the request stands (idle, read: its query has returned,
\* done: its write and response are out), what it asked, what its query
\* returned, and what it answered and which row it wrote.
IdleReq == [pc |-> "idle", op |-> "none", user |-> 0, arg |-> NoInput, notes |-> NoInput,
            snap |-> [date |-> 0, count |-> 0, found |-> NoRow], res |-> "none",
            id |-> NoRow]

Init ==
    /\ attendance = << >>
    /\ now = Evening
    /\ reqs = [s \in Slots |-> IdleReq]
    /\ response = Response("none", "none")

\* Time passes.
Tick(instants) ==
    /\ \E t \in instants : t > now /\ now' = t
    /\ UNCHANGED <<attendance, reqs, response>>

\* The handlers, each run as one atomic request.
ClockIn(u, shiftIn) ==
    LET snap == getAttendanceSessionsByUserAndDate(attendance, u, getJakartaDate(now))
    IN /\ attendance' = ClockInWrite(attendance, u, snap, shiftIn, now)
       /\ response' = Response("clockIn", ClockInResult(snap))
       /\ UNCHANGED <<now, reqs>>

ClockOut(u) ==
    LET snap == getAttendanceSessionsByUserAndDate(attendance, u, getJakartaDate(now))
    IN /\ attendance' = ClockOutWrite(attendance, snap, now)
       /\ response' = Response("clockOut", ClockOutResult(snap))
       /\ UNCHANGED <<now, reqs>>

BreakStart(u) ==
    LET snap == getAttendanceSessionsByUserAndDate(attendance, u, getJakartaDate(now))
    IN /\ attendance' = BreakStartWrite(attendance, snap, now)
       /\ response' = Response("breakStart", BreakStartResult(snap))
       /\ UNCHANGED <<now, reqs>>

BreakEnd(u) ==
    LET snap == getAttendanceSessionsByUserAndDate(attendance, u, getJakartaDate(now))
    IN /\ attendance' = BreakEndWrite(attendance, snap, now)
       /\ response' = Response("breakEnd", BreakEndResult(snap))
       /\ UNCHANGED <<now, reqs>>

Permit(u, type, notes) ==
    \E existing \in getAttendanceByUserAndDate(attendance, u, getJakartaDate(now)) :
        LET snap == [date |-> getJakartaDate(now), count |-> 0, found |-> existing]
        IN /\ attendance' = PermitWrite(attendance, u, snap, type, notes, now)
           /\ response' = Response("permit", "ok")
           /\ UNCHANGED <<now, reqs>>

Resume(u) ==
    LET snap == getAttendanceSessionsByUserAndDate(attendance, u, getJakartaDate(now))
    IN /\ attendance' = ResumeWrite(attendance, u, snap, now)
       /\ response' = Response("resume", ResumeResult(snap))
       /\ UNCHANGED <<now, reqs>>

\* The zone of the server's own clock is a setting of the deployment.
Today(u) ==
    /\ \E sk \in ServerSkews : attendance' = TodayWrite(attendance, u, now, sk)
    /\ response' = Response("today", "ok")
    /\ UNCHANGED <<now, reqs>>

\* getJakartaDate called on its own: the answer is the business date.
ResolveDate ==
    /\ response' = Response("getJakartaDate", getJakartaDate(now))
    /\ UNCHANGED <<attendance, now, reqs>>

\* calculateDailyTotal applied to the records at hand.
Aggregate ==
    /\ response' = Response("calculateDailyTotal", calculateDailyTotal(attendance))
    /\ UNCHANGED <<attendance, now, reqs>>

\* The table stays within n rows.
RowsWithin(n) == Len(attendance') <= n

\* Two business dates: the clock goes from 23:00 to 05:00 of the next calendar
\* day.  User 1 issues every request; user 2 only clocks in and out, so that the
\* table also holds rows of another user.
Next ==
    \/ Tick(Instants)
    \/ \E u \in Users : ClockIn(u, NoInput) /\ RowsWithin(MaxRows)
    \/ \E u \in Users : ClockOut(u)
    \/ BreakStart(1)
    \/ BreakEnd(1)
    \/ \E type \in PermitTypes, notes \in PermitNotes :
           Permit(1, type, notes) /\ RowsWithin(MaxRows)
    \/ Resume(1) /\ RowsWithin(MaxRows)
    \/ Today(1)

Spec == Init /\ [][Next]_vars

\* One user's business date that spans midnight: the clock goes from 23:00 to
\* 03:00 of the next calendar day.
NextNight ==
    \/ Tick(NightInstants)
    \/ ClockIn(1, NoInput) /\ RowsWithin(MaxRows)
    \/ ClockOut(1)
    \/ BreakStart(1)
    \/ BreakEnd(1)
    \/ \E type \in PermitTypes, notes \in PermitNotes :
           Permit(1, type, notes) /\ RowsWithin(MaxRows)
    \/ Resume(1) /\ RowsWithin(MaxRows)
    \/ Today(1)

SpecNight == Init /\ [][NextNight]_vars

\* One user's single business date, followed to the daily session limit and past it.
NextDay ==
    \/ \E shiftIn \in ShiftInputs : ClockIn(1, shiftIn) /\ RowsWithin(MaxDaySessions)
    \/ ClockOut(1)
    \/ Permit(1, "sick", "izin") /\ RowsWithin(MaxDaySessions)
    \/ Resume(1) /\ RowsWithin(MaxDaySessions)

SpecDay == Init /\ [][NextDay]_vars

\* One user's sessions opened around the lateness thresholds, with every kind of
\* shift a client sends.
NextLate ==
    \/ Tick(LateInstants)
    \/ \E shiftIn \in AllShiftInputs : ClockIn(1, shiftIn) /\ RowsWithin(MaxRows)
    \/ ClockOut(1)
    \/ Resume(1) /\ RowsWithin(MaxRows)

SpecLate == Init /\ [][NextLate]_vars

\* One user through the night and past the cutover: 23:00, 03:00, 05:00.
NextCutover ==
    \/ Tick(CutoverInstants)
    \/ ClockIn(1, NoInput) /\ RowsWithin(MaxRows)
    \/ ClockOut(1)
    \/ \E type \in PermitTypes, notes \in PermitNotes :
           Permit(1, type, notes) /\ RowsWithin(MaxRows)
    \/ Today(1)

SpecCutover == Init /\ [][NextCutover]_vars

\* One user over three business dates: a day may pass without any request.
NextGap ==
    \/ Tick(GapInstants)
    \/ ClockIn(1, NoInput) /\ RowsWithin(MaxRows)
    \/ ClockOut(1)
    \/ \E type \in PermitTypes, notes \in PermitNotes :
           Permit(1, type, notes) /\ RowsWithin(MaxRows)
    \/ Today(1)

SpecGap == Init /\ [][NextGap]_vars

\* The business-date clock alone, started at any of the instants.
InitClock ==
    /\ attendance = << >>
    /\ now \in ClockInstants
    /\ reqs = [s \in Slots |-> IdleReq]
    /\ response = Response("none", "none")

NextClock ==
    \/ Tick(ClockInstants)
    \/ ResolveDate

SpecClock == InitClock /\ [][NextClock]_vars

\* The aggregator alone, handed any list of up to MaxRecords sample records.
InitAggregate ==
    /\ attendance \in UNION {[1..n -> SampleRecords] : n \in 0..MaxRecords}
    /\ now = Evening
    /\ reqs = [s \in Slots |-> IdleReq]
    /\ response = Response("none", "none")

NextAggregate == Aggregate

SpecAggregate == InitAggregate /\ [][NextAggregate]_vars

----------------------------------------------------------------------------
\* Interleaved requests.  A handler awaits its query, then its write; between
\* the two, other requests run.  Begin is a handler up to the return of its
\* query; Finish is the rest: the checks on what the query returned, the write
\* and the response.
Handlers == {"clockIn", "clockOut", "breakStart", "breakEnd", "permit", "resume"}

\* What the handler's query can return.
QueryOf(op, att, u, d) ==
    IF op = "permit"
    THEN {[date |-> d, count |-> 0, found |-> e] :
              e \in getAttendanceByUserAndDate(att, u, d)}
    ELSE {getAttendanceSessionsByUserAndDate(att, u, d)}

ResultOf(r) ==
    CASE r.op = "clockIn" -> ClockInResult(r.snap)
      [] r.op = "clockOut" -> ClockOutResult(r.snap)
      [] r.op = "breakStart" -> BreakStartResult(r.snap)
      [] r.op = "breakEnd" -> BreakEndResult(r.snap)
      [] r.op = "permit" -> "ok"
      [] r.op = "resume" -> ResumeResult(r.snap)

WriteOf(r, att, t) ==
    CASE r.op = "clockIn" -> ClockInWrite(att, r.user, r.snap, r.arg, t)
      [] r.op = "clockOut" -> ClockOutWrite(att, r.snap, t)
      [] r.op = "breakStart" -> BreakStartWrite(att, r.snap, t)
      [] r.op = "breakEnd" -> BreakEndWrite(att, r.snap, t)
      [] r.op = "permit" -> PermitWrite(att, r.user, r.snap, r.arg, r.notes, t)
      [] r.op = "resume" -> ResumeWrite(att, r.user, r.snap, t)

\* The row the request writes: the inserted row's id, or the row it updates.
RowOf(r, att) ==
    IF ResultOf(r) # "ok" THEN NoRow
    ELSE IF r.op \in {"clockIn", "resume"} \/ (r.op = "permit" /\ r.snap.found = NoRow)
         THEN Len(att) + 1
         ELSE r.snap.found

Begin(slot, op, u, arg, notes) ==
    /\ reqs[slot].pc # "read"
    /\ \E snap \in QueryOf(op, attendance, u, getJakartaDate(now)) :
           reqs' = [reqs EXCEPT ![slot] =
                        [pc |-> "read", op |-> op, user |-> u, arg |-> arg,
                         notes |-> notes, snap |-> snap, res |-> "none", id |-> NoRow]]
    /\ UNCHANGED <<attendance, now, response>>

Finish(slot) ==
    /\ reqs[slot].pc = "read"
    /\ attendance' = WriteOf(reqs[slot], attendance, now)
    /\ response' = Response(reqs[slot].op, ResultOf(reqs[slot]))
    /\ reqs' = [reqs EXCEPT ![slot].pc = "done",
                            ![slot].res = ResultOf(reqs[slot]),
                            ![slot].id = RowOf(reqs[slot], attendance)]
    /\ UNCHANGED now

\* The request fields each handler takes.
ArgsOf(op) ==
    IF op = "permit" THEN PermitTypes \X PermitNotes ELSE {<<NoInput, NoInput>>}

\* Two requests of user 1 in flight at once, over the night's clock: the
\* handlers that open a session, and clockOut, which closes it.
SessionHandlers == {"clockIn", "clockOut", "resume"}

NextConc ==
    \/ Tick(NightInstants)
    \/ \E slot \in Slots, op \in SessionHandlers : \E a \in ArgsOf(op) :
           Begin(slot, op, 1, a[1], a[2])
    \/ \E slot \in Slots : Finish(slot) /\ RowsWithin(MaxRows)

SpecConc == Init /\ [][NextConc]_vars

\* One request of user 1 held between its query and its write while other
\* requests of user 1 run through: the held request is one of the handlers
\* that update the open session without a look at the row they write.
UpdateHandlers == {"clockOut", "breakStart", "breakEnd"}

NextRace ==
    \/ Tick(NightInstants)
    \/ ClockIn(1, NoInput) /\ RowsWithin(MaxRows)
    \/ ClockOut(1)
    \/ Permit(1, "sick", "izin") /\ RowsWithin(MaxRows)
    \/ \E op \in UpdateHandlers : Begin(1, op, 1, NoInput, NoInput)
    \/ Finish(1)

SpecRace == Init /\ [][NextRace]_vars

----------------------------------------------------------------------------
\* Properties.
Dates == {attendance[i].date : i \in DOMAIN attendance}
OpenRows(att, u, d) == {i \in DayRows(att, u, d) : att[i].checkOut = Null}

\* The business date of an instant, stated without the handlers' helper: the
\* day that began at the last 04:00.
BusinessDateOf(t) == (t - 4 * 60) \div (24 * 60)

\* C1: with atomic requests, every user has at most one session with
\* checkOut = NULL on each business date.
C1_AtMostOneOpen ==
    \A u \in Users, d \in Dates : Cardinality(OpenRows(attendance, u, d)) <= 1

\* A day with a closed session and a later open one.
C1_Witness ==
    \E u \in Users, d \in Dates :
        /\ Cardinality(DayRows(attendance, u, d)) >= 2
        /\ Cardinality(OpenRows(attendance, u, d)) = 1

\* C2: two clockIn requests of one user whose queries both returned the same
\* list, one that passes the checks, both succeed: they leave two open rows of
\* that user and business date that carry the same session number.
C2_ClockInRace ==
    \A s1, s2 \in Slots :
        (/\ s1 # s2
         /\ reqs[s1].pc = "done" /\ reqs[s2].pc = "done"
         /\ reqs[s1].op = "clockIn" /\ reqs[s2].op = "clockIn"
         /\ reqs[s1].user = reqs[s2].user
         /\ reqs[s1].snap = reqs[s2].snap
         /\ reqs[s1].snap.found = NoRow
         /\ reqs[s1].snap.count < MaxSessionsPerDay)
            => /\ reqs[s1].res = "ok" /\ reqs[s2].res = "ok"
               /\ reqs[s1].id # reqs[s2].id
               /\ reqs[s1].id \in DOMAIN attendance
               /\ reqs[s2].id \in DOMAIN attendance
               /\ LET a == attendance[reqs[s1].id]
                      b == attendance[reqs[s2].id]
                  IN /\ a.userId = reqs[s1].user /\ b.userId = reqs[s1].user
                     /\ a.date = reqs[s1].snap.date /\ b.date = reqs[s1].snap.date
                     /\ a.checkOut = Null /\ b.checkOut = Null
                     /\ a.sessionNumber = b.sessionNumber

\* Both racing requests are done and the day holds two open rows numbered alike.
C2_Witness ==
    /\ \A s \in Slots : reqs[s].pc = "done" /\ reqs[s].op = "clockIn" /\ reqs[s].res = "ok"
    /\ reqs[1].snap = reqs[2].snap
    /\ \E i, j \in DOMAIN attendance :
           /\ i # j
           /\ attendance[i].userId = attendance[j].userId
           /\ attendance[i].date = attendance[j].date
           /\ attendance[i].checkOut = Null /\ attendance[j].checkOut = Null
           /\ attendance[i].sessionNumber = attendance[j].sessionNumber

\* C3: no user ever has more than 5 sessions on one business date.
C3_AtMostFiveSessions ==
    \A u \in Users, d \in Dates :
        Cardinality(DayRows(attendance, u, d)) <= MaxSessionsPerDay

\* C4: no request changes a checkOut that is already set.
C4_CheckOutImmutable ==
    [][\A i \in DOMAIN attendance :
          attendance[i].checkOut # Null
              => attendance'[i].checkOut = attendance[i].checkOut]_vars

\* C5: a clockIn issued while the current business date has an open session is
\* answered SessionConflict and creates nothing, whatever break timestamps the
\* open session carries.
C5_ClockInConflict ==
    [][\A u \in Users, shiftIn \in ShiftInputs :
          (ClockIn(u, shiftIn) /\ OpenRows(attendance, u, BusinessDateOf(now)) # {})
              => /\ response' = Response("clockIn", "SessionConflict")
                 /\ attendance' = attendance]_vars

\* A rejected clockIn while the open session has both break timestamps set.
C5_Witness ==
    /\ response = Response("clockIn", "SessionConflict")
    /\ \E u \in Users : \E i \in OpenRows(attendance, u, BusinessDateOf(now)) :
           attendance[i].breakStart # Null /\ attendance[i].breakEnd # Null

\* C6 as claimed: a clockIn with 5 sessions recorded for the day is answered
\* SessionLimitExceeded and nothing else.
C6_SixthAlwaysLimit ==
    [][\A u \in Users, shiftIn \in ShiftInputs :
          (/\ ClockIn(u, shiftIn)
           /\ Cardinality(DayRows(attendance, u, BusinessDateOf(now))) = MaxSessionsPerDay)
              => /\ response' = Response("clockIn", "SessionLimitExceeded")
                 /\ attendance' = attendance]_vars

\* C6 as amended: a clockIn with 5 sessions recorded for the day creates nothing;
\* it is answered SessionLimitExceeded when none of the 5 is open and
\* SessionConflict when one of them is.
C6_SixthRejected ==
    [][\A u \in Users, shiftIn \in ShiftInputs :
          (/\ ClockIn(u, shiftIn)
           /\ Cardinality(DayRows(attendance, u, BusinessDateOf(now))) = MaxSessionsPerDay)
              => /\ attendance' = attendance
                 /\ response' =
                        Response("clockIn",
                                 IF OpenRows(attendance, u, BusinessDateOf(now)) = {}
                                 THEN "SessionLimitExceeded" ELSE "SessionConflict")]_vars

\* A clockIn rejected for the limit on a day of 5 closed sessions.
C6_Witness ==
    /\ response = Response("clockIn", "SessionLimitExceeded")
    /\ \E u \in Users :
           /\ Cardinality(DayRows(attendance, u, BusinessDateOf(now))) = MaxSessionsPerDay
           /\ OpenRows(attendance, u, BusinessDateOf(now)) = {}

\* C7: clockIn succeeds exactly when the day has no open session and fewer than
\* 5 sessions; it then appends one open row with the next session number,
\* checkIn = now, the business date of now and the caller's shift or Management,
\* and changes no other row; otherwise it changes nothing.
C7_ClockInSuccess ==
    [][\A u \in Users, shiftIn \in ShiftInputs :
          ClockIn(u, shiftIn) =>
              LET d == BusinessDateOf(now)
                  n == Len(attendance)
                  k == Cardinality(DayRows(attendance, u, d))
                  ok == OpenRows(attendance, u, d) = {} /\ k < 5
              IN /\ (response'.res = "ok") <=> ok
                 /\ ok => /\ Len(attendance') = n + 1
                          /\ SubSeq(attendance', 1, n) = attendance
                          /\ attendance'[n + 1].userId = u
                          /\ attendance'[n + 1].checkOut = Null
                          /\ attendance'[n + 1].sessionNumber = k + 1
                          /\ attendance'[n + 1].checkIn = now
                          /\ attendance'[n + 1].date = d
                          /\ attendance'[n + 1].shift =
                                 (IF shiftIn = NoInput THEN "Management" ELSE shiftIn)
                 /\ ~ok => attendance' = attendance]_vars

\* A successful clockIn without a shift that opened the fifth session of the day.
C7_Witness ==
    /\ response = Response("clockIn", "ok")
    /\ Len(attendance) >= 1
    /\ attendance[Len(attendance)].sessionNumber = MaxSessionsPerDay
    /\ attendance[Len(attendance)].shift = "Management"
    /\ attendance[Len(attendance)].checkOut = Null

\* C8: with atomic requests, the session numbers of a user's day are pairwise
\* distinct and are exactly 1..n for its n sessions.
C8_SessionNumbers ==
    \A u \in Users, d \in Dates :
        LET rows == DayRows(attendance, u, d)
        IN /\ \A i, j \in rows :
                  i # j => attendance[i].sessionNumber # attendance[j].sessionNumber
           /\ {attendance[i].sessionNumber : i \in rows} = 1..Cardinality(rows)

\* A day whose sessions were created by permit, by resume and by clockIn.
C8_Witness ==
    \E u \in Users, d \in Dates :
        \E i, j, k \in DayRows(attendance, u, d) :
            /\ attendance[i].shift = NullText
            /\ attendance[j].notes = "Sesi ke-2"
            /\ attendance[k].sessionNumber = 3
            /\ attendance[k].shift = "Shift 1"

\* C9: clockOut is answered NoActiveSession, and changes nothing, when the day
\* has no open session; otherwise it sets checkOut = now on the open session and
\* changes no other column and no other row.
C9_ClockOut ==
    [][\A u \in Users :
          ClockOut(u) =>
              LET open == OpenRows(attendance, u, BusinessDateOf(now))
              IN IF open = {}
                 THEN /\ response' = Response("clockOut", "NoActiveSession")
                      /\ attendance' = attendance
                 ELSE /\ response' = Response("clockOut", "ok")
                      /\ \E i \in open :
                             attendance' = [attendance EXCEPT ![i].checkOut = now]]_vars

\* A clockOut that closed a session on break while the table holds another row.
C9_Witness ==
    /\ response = Response("clockOut", "ok")
    /\ Len(attendance) >= 2
    /\ \E i \in DOMAIN attendance :
           /\ attendance[i].checkOut = now
           /\ attendance[i].breakStart # Null
           /\ attendance[i].breakEnd = Null

\* C10: breakStart and breakEnd are answered NoActiveSession, and change nothing,
\* exactly when the day has no open session; otherwise breakStart sets
\* breakStart = now and breakEnd sets breakEnd = now on the open session and
\* change no other column and no other row.
C10_Breaks ==
    [][\A u \in Users :
          LET open == OpenRows(attendance, u, BusinessDateOf(now))
          IN /\ BreakStart(u) =>
                    IF open = {}
                    THEN /\ response' = Response("breakStart", "NoActiveSession")
                         /\ attendance' = attendance
                    ELSE /\ response' = Response("breakStart", "ok")
                         /\ \E i \in open :
                                attendance' = [attendance EXCEPT ![i].breakStart = now]
             /\ BreakEnd(u) =>
                    IF open = {}
                    THEN /\ response' = Response("breakEnd", "NoActiveSession")
                         /\ attendance' = attendance
                    ELSE /\ response' = Response("breakEnd", "ok")
                         /\ \E i \in open :
                                attendance' = [attendance EXCEPT ![i].breakEnd = now]]_vars

\* A breakEnd recorded on the open session of a day that also has a closed one.
C10_Witness ==
    /\ response = Response("breakEnd", "ok")
    /\ \E u \in Users : \E i, j \in DayRows(attendance, u, BusinessDateOf(now)) :
           /\ attendance[i].checkOut = Null
           /\ attendance[i].breakEnd = now
           /\ attendance[i].breakStart # Null
           /\ attendance[j].checkOut # Null

\* C11: resume is answered NoAttendanceToday when the user has no session on the
\* current business date and SessionConflict when one of the day's sessions is
\* open; in both cases the table is left as it was.
C11_ResumeErrors ==
    [][\A u \in Users :
          Resume(u) =>
              LET d == BusinessDateOf(now)
              IN /\ DayRows(attendance, u, d) = {}
                     => /\ response' = Response("resume", "NoAttendanceToday")
                        /\ attendance' = attendance
                 /\ OpenRows(attendance, u, d) # {}
                     => /\ response' = Response("resume", "SessionConflict")
                        /\ attendance' = attendance]_vars

\* A resume refused for an empty day although the user has a session, still
\* open, on the business date before.
C11_Witness ==
    /\ response = Response("resume", "NoAttendanceToday")
    /\ DayRows(attendance, 1, BusinessDateOf(now)) = {}
    /\ OpenRows(attendance, 1, BusinessDateOf(now) - 1) # {}

\* C12: a successful resume appends exactly one row and changes no other: an
\* open session with sessionNumber = the day's session count + 1 and
\* checkIn = now, whose status is late when the Jakarta time of day is past
\* 420 minutes and present otherwise, whatever the shifts of the day's sessions.
C12_ResumeSuccess ==
    [][\A u \in Users :
          (Resume(u) /\ response'.res = "ok") =>
              LET d == BusinessDateOf(now)
                  n == Len(attendance)
                  k == Cardinality(DayRows(attendance, u, d))
              IN /\ Len(attendance') = n + 1
                 /\ SubSeq(attendance', 1, n) = attendance
                 /\ attendance'[n + 1].userId = u
                 /\ attendance'[n + 1].date = d
                 /\ attendance'[n + 1].checkOut = Null
                 /\ attendance'[n + 1].sessionNumber = k + 1
                 /\ attendance'[n + 1].checkIn = now
                 /\ attendance'[n + 1].status =
                        (IF now % (24 * 60) > 420 THEN "late" ELSE "present")]_vars

\* A resume at 07:01, hence late, on a day whose first session was a Shift 2
\* clock-in, which at that time of day is present.
C12_Witness ==
    /\ response = Response("resume", "ok")
    /\ now = SevenPast
    /\ Len(attendance) >= 2
    /\ attendance[Len(attendance)].status = "late"
    /\ attendance[Len(attendance)].checkIn = SevenPast
    /\ \E i \in DayRows(attendance, 1, BusinessDateOf(now)) :
           attendance[i].shift = "Shift 2" /\ attendance[i].status = "present"

\* C13: the status a clockIn records is late if and only if the shift is
\* Shift 1 and the Jakarta time of day is past 420 minutes, or the shift is
\* Shift 2 and it is past 720 minutes; otherwise it is present.
C13_ClockInLateness ==
    [][\A u \in Users, shiftIn \in AllShiftInputs :
          (ClockIn(u, shiftIn) /\ response'.res = "ok") =>
              LET row == attendance'[Len(attendance')]
                  mins == now % (24 * 60)
                  late == \/ shiftIn = "Shift 1" /\ mins > 420
                          \/ shiftIn = "Shift 2" /\ mins > 720
              IN /\ late => row.status = "late"
                 /\ ~late => row.status = "present"]_vars

\* The boundaries and the other shifts, all in one table: a Shift 1 clock-in at
\* exactly 07:00 and a Shift 2 clock-in at exactly 12:00, both present.
C13_Witness ==
    /\ response = Response("clockIn", "ok")
    /\ \E i, j \in DOMAIN attendance :
           /\ attendance[i].shift = "Shift 1" /\ attendance[i].checkIn = SevenSharp
           /\ attendance[i].status = "present"
           /\ attendance[j].shift = "Shift 2" /\ attendance[j].checkIn = NoonSharp
           /\ attendance[j].status = "present"

C15_PermitOnEmptyDay ==
    [][\A u \in Users, type \in PermitTypes, notes \in PermitNotes :
          (Permit(u, type, notes) /\ DayRows(attendance, u, BusinessDateOf(now)) = {})
              => /\ Len(attendance') = Len(attendance) + 1
                 /\ SubSeq(attendance', 1, Len(attendance)) = attendance
                 /\ attendance'[Len(attendance')].userId = u
                 /\ attendance'[Len(attendance')].date = BusinessDateOf(now)
                 /\ attendance'[Len(attendance')].status = type
                 /\ attendance'[Len(attendance')].checkIn = now
                 /\ OpenRows(attendance', u, BusinessDateOf(now)) = {}]_vars

\* C16: permit is never refused: it answers ok, and it either appends one row
\* for the day (when the day has none) or rewrites one row of the day with the
\* permit type and checkOut = now, leaving every other row as it was.
C16_PermitAlwaysSucceeds ==
    [][\A u \in Users, type \in PermitTypes, notes \in PermitNotes :
          Permit(u, type, notes) =>
              LET rows == DayRows(attendance, u, BusinessDateOf(now))
                  n == Len(attendance)
              IN /\ response' = Response("permit", "ok")
                 /\ IF rows = {}
                    THEN /\ Len(attendance') = n + 1
                         /\ SubSeq(attendance', 1, n) = attendance
                         /\ attendance'[n + 1].userId = u
                         /\ attendance'[n + 1].status = type
                    ELSE /\ Len(attendance') = n
                         /\ \E i \in rows :
                                /\ attendance'[i].status = type
                                /\ attendance'[i].checkOut = now
                                /\ \A j \in DOMAIN attendance :
                                       j # i => attendance'[j] = attendance[j]]_vars

\* A permit accepted on a day with 5 sessions recorded, one of them open.
C16_Witness ==
    /\ response = Response("permit", "ok")
    /\ Cardinality(DayRows(attendance, 1, BusinessDateOf(now))) = MaxSessionsPerDay
    /\ \E i, j \in DayRows(attendance, 1, BusinessDateOf(now)) :
           /\ attendance[i].status = "sick" /\ attendance[i].permitExitAt = now
           /\ attendance[j].checkOut = Null

\* The notes a row carries once the sweep has closed it.
AutoClosedNotes(previous) ==
    IF previous = NullText \/ previous = ""
    THEN "Auto-closed at 04:00"
    ELSE previous \o " (Auto-closed at 04:00)"

\* C17: today() called at or after 04:00 on business date D, when D has no
\* session of the user and D-1 has an open one, closes that session: its
\* checkOut becomes the 04:00 that begins D and its notes the previous notes
\* followed by "(Auto-closed at 04:00)", or that note alone.
C17_AutoClose ==
    [][\A u \in Users :
          LET d == BusinessDateOf(now)
          IN (/\ Today(u)
              /\ now % (24 * 60) >= 4 * 60
              /\ DayRows(attendance, u, d) = {}
              /\ OpenRows(attendance, u, d - 1) # {})
                 => \E i \in OpenRows(attendance, u, d - 1) :
                        /\ attendance'[i].checkOut = d * (24 * 60) + 4 * 60
                        /\ attendance'[i].notes = AutoClosedNotes(attendance[i].notes)]_vars

C19_NoStaleOpenAfterSweep ==
    [][\A u \in Users :
          (/\ Today(u)
           /\ now % (24 * 60) >= 4 * 60
           /\ DayRows(attendance, u, BusinessDateOf(now)) = {})
              => \A i \in DOMAIN attendance' :
                     (attendance'[i].userId = u /\ attendance'[i].date < BusinessDateOf(now))
                         => attendance'[i].checkOut # Null]_vars

\* The steps of the handlers that can refuse a request or write a session.
HandlerStep ==
    \E u \in Users :
        \/ \E shiftIn \in ShiftInputs : ClockIn(u, shiftIn)
        \/ ClockOut(u) \/ BreakStart(u) \/ BreakEnd(u) \/ Resume(u)
        \/ \E type \in PermitTypes, notes \in PermitNotes : Permit(u, type, notes)

C21_BusinessDate ==
    [][ResolveDate =>
          LET c == now \div (24 * 60)
              m == now % (24 * 60)
          IN /\ response'.res = (IF m \div 60 < 4 THEN c - 1 ELSE c)
             /\ m = 3 * 60 + 59 => response'.res = c - 1
             /\ m \in {4 * 60, 4 * 60 + 1} => response'.res = c
             /\ m = 3 * 60 + 59 => getJakartaDate(now + 2) = response'.res + 1]_vars

\* 03:59 of calendar day 2 resolved to business date 1.
C21_Witness ==
    /\ now = 2 * (24 * 60) + 3 * 60 + 59
    /\ response = Response("getJakartaDate", 1)

\* The sum of f over the positions of a list, taken over the set of positions.
RECURSIVE SumOver(_, _, _)
SumOver(f(_), records, positions) ==
    IF positions = {} THEN 0
    ELSE LET i == CHOOSE p \in positions : TRUE
         IN f(records[i]) + SumOver(f, records, positions \ {i})

\* Whole minutes from a to b, 0 when either is absent.
MinutesBetween(a, b) ==
    IF a = Null \/ b = Null THEN 0
    ELSE IF b >= a THEN (b - a) \div 60 ELSE -((a - b) \div 60)

ExpectedWork(r) ==
    IF r.permitExitAt # Null /\ r.permitResumeAt # Null
    THEN LET w == MinutesBetween(r.checkIn, r.checkOut)
                      - MinutesBetween(r.permitExitAt, r.permitResumeAt)
         IN IF w < 0 THEN 0 ELSE w
    ELSE MinutesBetween(r.checkIn, r.checkOut)

ExpectedBreak(r) == MinutesBetween(r.breakStart, r.breakEnd)

\* C22: the aggregator returns totalWorkMins = the sum of the sessions' work
\* (checkOut - checkIn in minutes, 0 if either is absent, less the permit
\* interval and floored at 0 when both permit timestamps are set),
\* totalBreakMins = the sum of the sessions' breaks, and netWorkMins =
\* max(0, totalWorkMins - totalBreakMins); 09:00-17:00 with a break from 12:00
\* to 13:00 gives 480, 60, 420.
C22_Aggregate ==
    [][Aggregate =>
          LET work == SumOver(ExpectedWork, attendance, DOMAIN attendance)
              break == SumOver(ExpectedBreak, attendance, DOMAIN attendance)
          IN /\ response'.res.totalWorkMins = work
             /\ response'.res.totalBreakMins = break
             /\ response'.res.netWorkMins = (IF work - break < 0 THEN 0 ELSE work - break)
             /\ attendance = << Record(Clock(9, 0, 0), Clock(17, 0, 0), Clock(12, 0, 0),
                                       Clock(13, 0, 0), Null, Null) >>
                    => response'.res = [totalWorkMins |-> 480, totalBreakMins |-> 60,
                                        netWorkMins |-> 420]]_vars

\* The totals of a permit longer than the work it interrupts, next to a
\* plain session: the first counts 0, the second 479 whole minutes.
C22_Witness ==
    /\ Len(attendance) = 2
    /\ attendance[1].permitResumeAt = Clock(23, 30, 0)
    /\ attendance[1].permitExitAt = Clock(14, 0, 0)
    /\ attendance[2] = Record(Clock(9, 0, 30), Clock(17, 0, 0), Null, Null, Null, Null)
    /\ response = Response("calculateDailyTotal",
                           [totalWorkMins |-> 479, totalBreakMins |-> 60,
                            netWorkMins |-> 419])

\* The lists that hold the same records in another order.
Reorderings(records) ==
    {[i \in DOMAIN records |-> records[p[i]]] :
         p \in {q \in [DOMAIN records -> DOMAIN records] :
                    \A i, j \in DOMAIN records : i # j => q[i] # q[j]}}

\* C23: the aggregator gives the same three totals for every reordering of
\* its records, and the same totals again when applied again.
C23_OrderIndependent ==
    [][Aggregate =>
          /\ \A other \in Reorderings(attendance) :
                 calculateDailyTotal(other) = response'.res
          /\ response.op = "calculateDailyTotal" => response' = response]_vars

\* The totals of two records that differ in work and in break.
C23_Witness ==
    /\ response.op = "calculateDailyTotal"
    /\ Len(attendance) = 2
    /\ attendance[1].breakEnd = Clock(13, 0, 0) /\ attendance[1].permitExitAt = Null
    /\ attendance[2] = Record(Clock(9, 0, 30), Clock(17, 0, 0), Null, Null, Null, Null)
    /\ response.res.totalWorkMins = 480 + 479
    /\ response.res.totalBreakMins = 60

C25_NeverDeleted ==
    [][\A i \in DOMAIN attendance :
          /\ i \in DOMAIN attendance'
          /\ attendance'[i].userId = attendance[i].userId
          /\ attendance'[i].date = attendance[i].date]_vars

\* The swept session of the day before is still in the table, next to a
\* session of the new day.
C25_Witness ==
    /\ Len(attendance) = 2
    /\ attendance[1].date = BusinessDateOf(now) - 1
    /\ attendance[1].notes = "izin (Auto-closed at 04:00)"
    /\ attendance[2].date = BusinessDateOf(now)

\* C26: the status of a session changes only by permit: a step answered by
\* clockIn, clockOut, breakStart, breakEnd, resume or today() leaves the
\* status of every existing session as it was.
C26_StatusKept ==
    [][response'.op # "permit"
           => \A i \in DOMAIN attendance : attendance'[i].status = attendance[i].status]_vars

\* A session resumed late at 23:00 and closed by the sweep of the next
\* morning, an hour of day at which it would count as present: still late.
C26_Witness ==
    /\ response = Response("today", "ok")
    /\ now = Morning
    /\ \E i \in DOMAIN attendance :
           /\ attendance[i].status = "late"
           /\ attendance[i].notes = "Sesi ke-2 (Auto-closed at 04:00)"

\* C27: a step answered by clockIn, clockOut, breakStart, breakEnd, permit or
\* resume changes no session of a business date other than the current one,
\* and today() changes nothing when the current business date already has a
\* session of the user.
C27_OnlyTodaySweeps ==
    [][/\ response'.op \in Handlers
           => \A i \in DOMAIN attendance :
                  attendance[i].date # BusinessDateOf(now) => attendance'[i] = attendance[i]
       /\ \A u \in Users :
              (Today(u) /\ DayRows(attendance, u, BusinessDateOf(now)) # {})
                  => attendance' = attendance]_vars

\* today() answered while the new day has a session and the day before still
\* has an open one: nothing was swept.
C27_Witness ==
    /\ response = Response("today", "ok")
    /\ DayRows(attendance, 1, BusinessDateOf(now)) # {}
    /\ OpenRows(attendance, 1, BusinessDateOf(now) - 1) # {}

\* C28: a session checked in before midnight stays the active session of its
\* business date until 04:00 of the next calendar day: between 00:00 and
\* 03:59 clockOut, breakStart and breakEnd act on it, and a clockIn is
\* answered SessionConflict and opens nothing.
C28_NightShift ==
    [][\A u \in Users : \A i \in DOMAIN attendance :
          (/\ now % (24 * 60) < 4 * 60
           /\ attendance[i].userId = u
           /\ attendance[i].checkOut = Null
           /\ attendance[i].checkIn < (now \div (24 * 60)) * (24 * 60)
           /\ attendance[i].checkIn >= (now \div (24 * 60) - 1) * (24 * 60) + 4 * 60)
              => /\ ClockOut(u) => /\ response' = Response("clockOut", "ok")
                                   /\ attendance' = [attendance EXCEPT ![i].checkOut = now]
                 /\ BreakStart(u) => /\ response' = Response("breakStart", "ok")
                                     /\ attendance' = [attendance EXCEPT ![i].breakStart = now]
                 /\ BreakEnd(u) => /\ response' = Response("breakEnd", "ok")
                                   /\ attendance' = [attendance EXCEPT ![i].breakEnd = now]
                 /\ \A shiftIn \in ShiftInputs :
                        ClockIn(u, shiftIn)
                            => /\ response' = Response("clockIn", "SessionConflict")
                               /\ attendance' = attendance]_vars

\* At 03:00 the session opened at 23:00 has been put on break and then
\* closed: one business date, one session.
C28_Witness ==
    /\ now = Night
    /\ response = Response("clockOut", "ok")
    /\ Len(attendance) = 1
    /\ attendance[1].checkIn = Evening
    /\ attendance[1].breakStart = Night
    /\ attendance[1].checkOut = Night
    /\ attendance[1].date = 1

\* The table's instants are minutes; the aggregator's are seconds.
AsRecord(row) ==
    LET sec(t) == IF t = Null THEN Null ELSE t * 60
    IN Record(sec(row.checkIn), sec(row.checkOut), sec(row.breakStart), sec(row.breakEnd),
              sec(row.permitExitAt), sec(row.permitResumeAt))

\* C29: permitResumeAt is null on every session in every state, so the
\* aggregator counts every session the handlers produce at its full
\* checkIn-to-checkOut duration, with nothing subtracted for a permit.
C29_ResumeAtNeverSet ==
    \A i \in DOMAIN attendance :
        /\ attendance[i].permitResumeAt = Null
        /\ SessionWork(AsRecord(attendance[i]))
               = calculateDuration(AsRecord(attendance[i]).checkIn,
                                   AsRecord(attendance[i]).checkOut)

\* A permit at 23:00 on a session, then a resume at 03:00 of the same
\* business date: the permitted session has an exit and no resume stamp.
C29_Witness ==
    /\ now = Night
    /\ \E i, j \in DayRows(attendance, 1, BusinessDateOf(now)) :
           /\ attendance[i].permitExitAt = Evening
           /\ attendance[i].permitResumeAt = Null
           /\ attendance[j].notes = "Sesi ke-2"
           /\ attendance[j].checkIn = Night

\* C30: with two open sessions of one user and business date, the session a
\* clockOut finds is an open one with the lowest session number, the first
\* open one of the day's list; the clockOut closes that session alone, so
\* the other one is left open.
C30_FirstOpenClosed ==
    [][\A slot \in Slots :
          LET open == OpenRows(attendance, 1, BusinessDateOf(now))
              r == reqs[slot]
          IN /\ (Begin(slot, "clockOut", 1, NoInput, NoInput) /\ Cardinality(open) >= 2)
                 => /\ reqs'[slot].snap.found \in open
                    /\ \A j \in open :
                           attendance[reqs'[slot].snap.found].sessionNumber
                               <= attendance[j].sessionNumber
             /\ (Finish(slot) /\ r.op = "clockOut" /\ r.snap.found # NoRow)
                 => /\ attendance' = [attendance EXCEPT ![r.snap.found].checkOut = now]
                    /\ \A j \in open \ {r.snap.found} : attendance'[j].checkOut = Null]_vars

\* After the clock-in race, one clockOut has closed one of the twin sessions
\* and the other is still open.
C30_Witness ==
    \E slot \in Slots : \E j \in DOMAIN attendance :
        /\ reqs[slot].pc = "done" /\ reqs[slot].op = "clockOut" /\ reqs[slot].res = "ok"
        /\ reqs[slot].id \in DOMAIN attendance
        /\ j # reqs[slot].id
        /\ attendance[reqs[slot].id].checkOut # Null
        /\ attendance[j].checkOut = Null
        /\ attendance[j].userId = attendance[reqs[slot].id].userId
        /\ attendance[j].date = attendance[reqs[slot].id].date
        /\ attendance[j].sessionNumber = attendance[reqs[slot].id].sessionNumber

\* C31: every closed session has checkIn <= checkOut, whether clockOut, permit
\* or the sweep closed it.
C31_CheckInBeforeCheckOut ==
    \A i \in DOMAIN attendance :
        attendance[i].checkOut # Null => attendance[i].checkIn <= attendance[i].checkOut

\* C35: today() closes no session of the current business date: before 04:00
\* it changes nothing, and from 04:00 on it changes at most a session of the
\* business date just before.
C35_SweepSparesToday ==
    [][\A u \in Users :
          Today(u) =>
              /\ now % (24 * 60) < 4 * 60 => attendance' = attendance
              /\ \A i \in DOMAIN attendance :
                     attendance'[i] # attendance[i]
                         => attendance[i].date = BusinessDateOf(now) - 1]_vars

\* today() answered at 03:00 while the session opened at 23:00 is open: it
\* is still open.
C35_Witness ==
    /\ response = Response("today", "ok")
    /\ now = Night
    /\ \E i \in OpenRows(attendance, 1, BusinessDateOf(now)) :
           attendance[i].checkIn = Evening /\ attendance[i].notes = NullText

\* C32: in every state, a session whose breakEnd is set has breakStart set as
\* well, and not later than breakEnd.
C32_BreakPairing ==
    \A i \in DOMAIN attendance :
        attendance[i].breakEnd # Null
            => /\ attendance[i].breakStart # Null
               /\ attendance[i].breakStart <= attendance[i].breakEnd

\* The sessions of a user's business date as the client receives them.
DayRecords(u, d) ==
    LET rows == SelectSeq(attendance, LAMBDA r : r.userId = u /\ r.date = d)
    IN [i \in DOMAIN rows |-> AsRecord(rows[i])]

\* C33: for the sessions of every user and business date, the aggregator
\* yields totalBreakMins >= 0 and netWorkMins <= totalWorkMins.
C33_TotalsInRange ==
    \A u \in Users, d \in Dates :
        LET totals == calculateDailyTotal(DayRecords(u, d))
        IN /\ totals.totalBreakMins >= 0
           /\ totals.netWorkMins <= totals.totalWorkMins

C36_SweptWhateverElse ==
    [][\A u \in Users :
          Today(u) /\ Hours(now) >= CutoverHour
              => OpenRows(attendance', u, BusinessDateOf(now) - 1) = {}]_vars

\* C36: with requests run one at a time, once today() has answered at or
\* after 04:00 while the current business date had no session yet, no session
\* of the business date before is open.
C36_SweptWhenDayEmpty ==
    [][\A u \in Users :
          /\ Today(u)
          /\ Hours(now) >= CutoverHour
          /\ DayRows(attendance, u, BusinessDateOf(now)) = {}
          => OpenRows(attendance', u, BusinessDateOf(now) - 1) = {}]_vars

\* today() has answered at 05:00 on a date without sessions, and the session
\* opened at 23:00 of the date before carries the sweep's checkOut and note.
C36_Witness ==
    /\ response = Response("today", "ok")
    /\ now = Morning
    /\ DayRows(attendance, 1, BusinessDateOf(now)) = {}
    /\ \E i \in DayRows(attendance, 1, BusinessDateOf(now) - 1) :
           /\ attendance[i].checkIn = Evening
           /\ attendance[i].checkOut # Null
           /\ attendance[i].notes = AutoCloseNotes(NullText)

\* C37: with requests run one at a time, an open session of a user and
\* business date has a higher sessionNumber than every other session of that
\* day, and every other session of that day is closed.
C37_OpenIsHighest ==
    \A u \in Users, d \in Dates :
        \A i \in OpenRows(attendance, u, d), j \in DayRows(attendance, u, d) :
            j # i => /\ attendance[j].sessionNumber < attendance[i].sessionNumber
                     /\ attendance[j].checkOut # Null

\* resume has opened the third session of the day after two closed ones.
C37_Witness ==
    /\ response = Response("resume", "ok")
    /\ \E i \in OpenRows(attendance, 1, getJakartaDate(now)) :
           /\ attendance[i].sessionNumber = 3
           /\ Cardinality(DayRows(attendance, 1, getJakartaDate(now))) = 3

\* C38: in every state, a session whose permitExitAt is set is closed, its
\* permitExitAt equals its checkOut, and its status is a permit type.
C38_PermitExitIsCheckOut ==
    \A i \in DOMAIN attendance :
        attendance[i].permitExitAt # Null
            => /\ attendance[i].checkOut # Null
               /\ attendance[i].permitExitAt = attendance[i].checkOut
               /\ attendance[i].status \in {"sick", "permission"}

\* C39: also with requests interleaved, no session has a break timestamp
\* later than its checkOut.
C39_NoBreakAfterCheckOut ==
    \A i \in DOMAIN attendance :
        attendance[i].checkOut # Null
            => /\ attendance[i].breakStart <= attendance[i].checkOut
               /\ attendance[i].breakEnd <= attendance[i].checkOut

====
